---- MODULE Spec2Model ----
(***************************************************************************)
(* State-machine model of the two polling loops of smart-tuya:             *)
(*   - battery_manager.py  main(): the hysteresis charge controller        *)
(*   - monitor_service.py  main(): the online/offline connectivity monitor *)
(* Each loop is a single-threaded process; one action models one step of   *)
(* a tick (sensor read, telemetry write, policy, sleep).  The variables    *)
(* cmds, sent, notes, telem, ... are per-tick logs of the calls the tick   *)
(* made to its collaborators; they are cleared when a tick starts.         *)
(***************************************************************************)
EXTENDS Integers, Sequences, FiniteSets, TLC

\* ------------------------------------------------------------------------
\* battery_manager.py: configuration
\* ------------------------------------------------------------------------
ALLOWED_SSIDS == {"frans-extender", "frans-extender_5G", "Frans", "Frans-IOT"}

BATTERY_MAX == 100

BATTERY_MIN == 20

\* get_current_ssid() returns None when neither tool reports a network.
NoSSID == "<None>"

\* The network identities a tick may observe: allow-listed ones, a foreign
\* one, one differing from an allow-listed one only in case, and none.
SSIDs == ALLOWED_SSIDS \cup {"CoffeeShop", "frans", NoSSID}

\* psutil.sensors_battery() returns None on a machine without a battery.
NoBattery == [none |-> TRUE]

\* Battery percentages a tick may read: both thresholds, their neighbours,
\* and values inside and outside the band.
Percents == {0, 19, 20, 21, 95, 99, 100}

\* power_plugged is True, False, or None when the state cannot be determined.
PlugValues == {"True", "False", "None"}

Readings == [percent : Percents, power_plugged : PlugValues]

\* Python truthiness of power_plugged.
Truthy(v) == v = "True"

VARIABLES
    \* --- battery_manager.py ---
    mode,            \* get_device(): "local" or "cloud" (fixed by the environment)
    influx_client,   \* get_influx_client() returns a client (INFLUX_URL and INFLUX_TOKEN set)
    last_action,     \* main(): "None", "ON" or "OFF"
    bpc,             \* position of main() in its loop
    ssid,            \* this tick's get_current_ssid()
    battery,         \* this tick's psutil.sensors_battery()
    held_before,     \* last_action when this tick started
    cmds,            \* control_switch_2 calls of this tick, as "ON"/"OFF"
    sent,            \* commands of this tick that reached the device backend
    cmd_outcome,     \* how this tick's command ended
    notes,           \* send_notification calls of this tick
    telem,           \* records this tick wrote to InfluxDB
    telem_tries,     \* write_to_influx calls of this tick and how each ended
    steps,           \* order of the telemetry and policy steps in this tick
    bexc,            \* this tick ended in main()'s except clause
    prev,            \* summary of the previous tick
    scenario,        \* the ticks since process start, while they follow ScenarioReadings
    \* --- monitor_service.py ---
    mpc,                      \* position of main() in its loop
    last_is_online,           \* main(): "None", "True" or "False"
    last_api_error_notified,  \* main()
    status,                   \* this tick's c.getconnectstatus(DEVICE_ID)
    is_online,                \* this tick's classified observation
    m_held_before,            \* last_is_online when this tick started
    m_flag_before,            \* last_api_error_notified when this tick started
    m_notes,                  \* send_notification calls of this tick
    m_details,                \* what get_socket_details returned in this tick, "" if not called
    m_telem,                  \* telemetry records this tick emitted
    m_exc,                    \* this tick ended in main()'s except clause
    m_prev,                   \* summary of the previous tick
    hist,                     \* summaries of the first MaxHist ticks
    \* --- app.py ---
    apc,             \* "init" before the module's configuration is read, then "serving"
    USE_LOCAL,       \* USE_LOCAL
    local_cfg,       \* LOCAL_KEY and DEVICE_IP are both set
    cloud_cfg,       \* API_KEY and API_SECRET are both set
    request,         \* the control request handled last
    response,        \* the answer to it: HTTP status and body
    a_calls,         \* backend calls made while handling it
    switches,        \* the device's switch states, by code
    \* --- monitor_service.py, get_socket_details ---
    sdpc,            \* "call" before a call of get_socket_details, "return" after it
    sd_status,       \* what c.getstatus(device_id) answered in the call
    sd_details       \* the text the call returned

bvars == <<mode, influx_client, last_action, bpc, ssid, battery, held_before,
           cmds, sent, cmd_outcome, notes, telem, steps, bexc, prev, scenario,
           telem_tries>>

mvars == <<mpc, last_is_online, last_api_error_notified, status, is_online,
           m_held_before, m_flag_before, m_notes, m_telem, m_exc, m_prev, hist,
           m_details>>

avars == <<apc, USE_LOCAL, local_cfg, cloud_cfg, request, response, a_calls,
           switches>>

svars == <<sdpc, sd_status, sd_details>>

\* ------------------------------------------------------------------------
\* battery_manager.py: helpers
\* ------------------------------------------------------------------------

\* send_notification(title, message, urgency): the call and whether
\* notify-send was run (a failure is swallowed).
Notification(title, message, urgency, ntf_o) ==
    [title |-> title, message |-> message, urgency |-> urgency,
     delivered |-> (ntf_o = "sent")]

\* write_to_influx: returns silently without a client, swallows a write error.
write_to_influx(client, measurement, fields, tags, write_o) ==
    IF client /\ write_o = "ok"
    THEN <<[measurement |-> measurement, fields |-> fields, tags |-> tags]>>
    ELSE <<>>

\* How a write_to_influx call ends: nothing to do without a client, the
\* point written, or the error printed.
write_outcome(client, write_o) ==
    IF ~client THEN "no_client"
    ELSE IF write_o = "ok" THEN "written" ELSE "failed"

\* Mutant of AfterTelemetry: a failed write ends the tick.
AfterTelemetryAborts(client, write_o) ==
    IF client /\ write_o = "fails" THEN "sleep" ELSE "logic"

\* write_to_influx always returns to main(), which goes on to the logic.
AfterTelemetry(client, write_o) == "logic"

\* Mutant of AfterBattery: a missing reading does not skip the tick.
AfterBatteryNoSkip(b) == "influx"

\* main() after the sensor read: "Battery information not available." skips to the sleep.
AfterBattery(b) == IF b = NoBattery THEN "sleep" ELSE "influx"

\* control_switch_2(turn_on), through the local device (turn_on/turn_off of
\* switch 2) or the cloud (sendcommand of switch_2) as get_device() decides.  dev_o: get_device() returns or raises (it is
\* called outside the try).  call_o: the backend call returns normally
\* ("ok"), returns an error result ("error_result", the return value is
\* ignored), or raises.  ret "raise" means the exception left the function.
control_switch_2(turn_on, dev_o, call_o, ntf_o) ==
    LET action == IF turn_on THEN "ON" ELSE "OFF" IN
    IF dev_o = "raises"
    THEN [ret |-> "raise", sent |-> <<>>, notes |-> <<>>,
          outcome |-> "get_device_raises"]
    ELSE IF call_o = "raises"
    THEN [ret |-> "False", sent |-> <<[via |-> mode, action |-> action]>>,
          notes |-> <<Notification("Battery Manager Error",
                                   "Failed to control switch", "critical", ntf_o)>>,
          outcome |-> "raises"]
    ELSE [ret |-> "True", sent |-> <<[via |-> mode, action |-> action]>>,
          notes |-> <<Notification("Battery Manager: Charging " \o action,
                                   "because battery reached limit", "normal", ntf_o)>>,
          outcome |-> call_o]

\* Mutant of Allowed: only checks that some network is connected.
AllowedAnyNetwork(s) == s # NoSSID

\* "ssid not in ALLOWED_SSIDS" negated: exact, case-sensitive membership.
Allowed(s) == s \in ALLOWED_SSIDS

\* Mutant of IsFull: strict comparison with the high threshold.
IsFullStrict(percent, is_plugged) == percent > BATTERY_MAX /\ Truthy(is_plugged)

\* Mutant of IsFull: the plug state is not consulted.
IsFullIgnoresPlug(percent, is_plugged) == percent >= BATTERY_MAX

\* The two conditions of the policy.
IsFull(percent, is_plugged) == percent >= BATTERY_MAX /\ Truthy(is_plugged)

\* Mutant of IsLow: inclusive comparison with the low threshold.
IsLowInclusive(percent, is_plugged) == percent <= BATTERY_MIN /\ ~Truthy(is_plugged)

IsLow(percent, is_plugged) == percent < BATTERY_MIN /\ ~Truthy(is_plugged)

NoCommand(last) ==
    [last_action |-> last, cmds |-> <<>>, sent |-> <<>>, notes |-> <<>>,
     outcome |-> "none", exc |-> FALSE]

\* Mutant of Commanded: the result of control_switch_2 is not stored.
CommandedNotStored(last, turn_on, r) ==
    [last_action |-> last,
     cmds |-> <<IF turn_on THEN "ON" ELSE "OFF">>,
     sent |-> r.sent, notes |-> r.notes, outcome |-> r.outcome,
     exc |-> (r.ret = "raise")]

\* The caller's side of "if control_switch_2(x): last_action = ...".
Commanded(last, turn_on, r) ==
    [last_action |-> IF r.ret = "True"
                     THEN (IF turn_on THEN "ON" ELSE "OFF") ELSE last,
     cmds |-> <<IF turn_on THEN "ON" ELSE "OFF">>,
     sent |-> r.sent, notes |-> r.notes, outcome |-> r.outcome,
     exc |-> (r.ret = "raise")]

\* Mutant of Logic: the ON branch does not consult the held action.
LogicOnUnguarded(last, percent, is_plugged, dev_o, call_o, ntf_o) ==
    IF IsFull(percent, is_plugged)
    THEN Commanded(last, FALSE, control_switch_2(FALSE, dev_o, call_o, ntf_o))
    ELSE IF IsLow(percent, is_plugged)
    THEN Commanded(last, TRUE, control_switch_2(TRUE, dev_o, call_o, ntf_o))
    ELSE NoCommand(last)

\* Step 3 of main(): the hysteresis policy on one reading.
Logic(last, percent, is_plugged, dev_o, call_o, ntf_o) ==
    IF IsFull(percent, is_plugged)
    THEN Commanded(last, FALSE, control_switch_2(FALSE, dev_o, call_o, ntf_o))
    ELSE IF IsLow(percent, is_plugged)
    THEN IF last # "ON"
         THEN Commanded(last, TRUE, control_switch_2(TRUE, dev_o, call_o, ntf_o))
         ELSE NoCommand(last)
    ELSE NoCommand(last)

\* ------------------------------------------------------------------------
\* battery_manager.py: main()
\* ------------------------------------------------------------------------
\* The readings of the scenario followed from process start: low and
\* unplugged twice, inside the band and plugged, full and plugged.
ScenarioReadings ==
    << [percent |-> 19, power_plugged |-> "False"],
       [percent |-> 19, power_plugged |-> "False"],
       [percent |-> 95, power_plugged |-> "True"],
       [percent |-> 100, power_plugged |-> "True"] >>

ScenarioOff == [on |-> FALSE, cmds |-> <<>>, held |-> "None"]

\* The scenario record after a tick: it grows by the tick's commands while
\* every tick so far ran on an allow-listed network, read the scenario's
\* next reading and had its command (if any) succeed.
ScenarioAfterTick(sc, s, b, tick_cmds, outcome, last) ==
    IF /\ sc.on
       /\ Len(sc.cmds) < Len(ScenarioReadings)
       /\ s \in ALLOWED_SSIDS
       /\ b = ScenarioReadings[Len(sc.cmds) + 1]
       /\ outcome \in {"ok", "none"}
    THEN [on |-> TRUE, cmds |-> Append(sc.cmds, tick_cmds), held |-> last]
    ELSE ScenarioOff

NoPrev == [reading |-> NoBattery, cmds |-> <<>>, outcome |-> "none",
           last_action |-> "None"]

InitCharge ==
    /\ mode \in {"local", "cloud"}
    /\ influx_client \in BOOLEAN
    /\ last_action = "None"
    /\ bpc = "wifi"
    /\ ssid = NoSSID
    /\ battery = NoBattery
    /\ held_before = "None"
    /\ cmds = <<>>
    /\ sent = <<>>
    /\ cmd_outcome = "none"
    /\ notes = <<>>
    /\ telem = <<>>
    /\ telem_tries = <<>>
    /\ steps = <<>>
    /\ bexc = FALSE
    /\ prev = NoPrev
    /\ scenario = [on |-> TRUE, cmds |-> <<>>, held |-> "None"]

\* 1. Check WiFi: a new tick starts; skip it on a network not allow-listed.
CheckWifi ==
    /\ bpc = "wifi"
    /\ \E s \in SSIDs :
          /\ ssid' = s
          /\ bpc' = IF ~Allowed(s) THEN "sleep" ELSE "battery"
    /\ held_before' = last_action
    /\ battery' = NoBattery
    /\ cmds' = <<>>
    /\ sent' = <<>>
    /\ cmd_outcome' = "none"
    /\ notes' = <<>>
    /\ telem' = <<>>
    /\ telem_tries' = <<>>
    /\ steps' = <<>>
    /\ bexc' = FALSE
    /\ scenario' = IF Len(scenario.cmds) = Len(ScenarioReadings)
                   THEN ScenarioOff ELSE scenario
    /\ UNCHANGED <<mode, influx_client, last_action, prev>>
    /\ UNCHANGED <<mvars, avars, svars>>

\* 2. Check Battery: skip the tick when the sensor reports nothing; a sensor
\* call that raises ends the tick in main()'s except clause.
CheckBattery ==
    /\ bpc = "battery"
    /\ \/ \E b \in Readings \cup {NoBattery} :
             /\ battery' = b
             /\ bpc' = AfterBattery(b)
             /\ UNCHANGED bexc
       \/ /\ battery' = NoBattery
          /\ bexc' = TRUE
          /\ bpc' = "sleep"
    /\ UNCHANGED <<mode, influx_client, last_action, ssid, held_before, cmds,
                   sent, cmd_outcome, notes, telem, steps, prev, scenario,
                   telem_tries>>
    /\ UNCHANGED <<mvars, avars, svars>>

\* Log to InfluxDB.
LogToInflux ==
    /\ bpc = "influx"
    /\ \E write_o \in {"ok", "fails"} :
          LET fields == [percent |-> battery.percent,
                         plugged |-> Truthy(battery.power_plugged)]
              tags == [ssid |-> ssid, device |-> "laptop"] IN
          /\ telem' = write_to_influx(influx_client, "battery_status",
                                      fields, tags, write_o)
          /\ telem_tries' = Append(telem_tries,
                 [measurement |-> "battery_status", fields |-> fields,
                  tags |-> tags,
                  outcome |-> write_outcome(influx_client, write_o)])
          /\ bpc' = AfterTelemetry(influx_client, write_o)
    /\ steps' = Append(steps, "telemetry")
    /\ UNCHANGED <<mode, influx_client, last_action, ssid, battery, held_before,
                   cmds, sent, cmd_outcome, notes, bexc, prev, scenario>>
    /\ UNCHANGED <<mvars, avars, svars>>

\* 3. Logic, with everything control_switch_2 does.
ApplyLogic ==
    /\ bpc = "logic"
    /\ \E dev_o \in {"ok", "raises"}, call_o \in {"ok", "error_result", "raises"},
          ntf_o \in {"sent", "failed"} :
          LET r == Logic(last_action, battery.percent, battery.power_plugged,
                         dev_o, call_o, ntf_o) IN
          /\ last_action' = r.last_action
          /\ cmds' = r.cmds
          /\ sent' = r.sent
          /\ notes' = r.notes
          /\ cmd_outcome' = r.outcome
          /\ bexc' = r.exc
    /\ steps' = Append(steps, "logic")
    /\ bpc' = "sleep"
    /\ UNCHANGED <<mode, influx_client, ssid, battery, held_before, telem, prev,
                   scenario, telem_tries>>
    /\ UNCHANGED <<mvars, avars, svars>>

\* Mutant of Sleep: an exception caught in the tick ends the loop.
SleepUnlessException ==
    /\ bpc = "sleep"
    /\ ~bexc
    /\ bpc' = "wifi"
    /\ prev' = [reading |-> battery, cmds |-> cmds, outcome |-> cmd_outcome,
                last_action |-> last_action]
    /\ scenario' = ScenarioAfterTick(scenario, ssid, battery, cmds, cmd_outcome,
                                     last_action)
    /\ UNCHANGED <<mode, influx_client, last_action, ssid, battery, held_before,
                   cmds, sent, cmd_outcome, notes, telem, steps, bexc,
                   telem_tries>>
    /\ UNCHANGED <<mvars, avars, svars>>

\* time.sleep(CHECK_INTERVAL), then the next iteration.
Sleep ==
    /\ bpc = "sleep"
    /\ bpc' = "wifi"
    /\ prev' = [reading |-> battery, cmds |-> cmds, outcome |-> cmd_outcome,
                last_action |-> last_action]
    /\ scenario' = ScenarioAfterTick(scenario, ssid, battery, cmds, cmd_outcome,
                                     last_action)
    /\ UNCHANGED <<mode, influx_client, last_action, ssid, battery, held_before,
                   cmds, sent, cmd_outcome, notes, telem, steps, bexc,
                   telem_tries>>
    /\ UNCHANGED <<mvars, avars, svars>>

NextCharge == CheckWifi \/ CheckBattery \/ LogToInflux \/ ApplyLogic \/ Sleep

\* ------------------------------------------------------------------------
\* monitor_service.py
\* ------------------------------------------------------------------------
DEVICE_NAME == "Socket Kamar Tidur"

\* Number of ticks from process start whose summaries hist keeps.
MaxHist == 5

\* What c.getconnectstatus returns: a boolean, or tinytuya's error dict
\* {'Error': ..., 'Payload': ...}.  The payloads are told apart by what the
\* loop looks for in them:
\*   "forbidden_ip"    contains "don't have access to this API" and "your ip(a.b.c.d)"
\*   "forbidden_noip"  contains "don't have access to this API" and "your ip" without "("
\*   "forbidden"       contains "don't have access to this API" only
\*   "other"           any other text (also the '' of a missing Payload key)
\*   "None"            the Payload key holds None
Payloads == {"forbidden_ip", "forbidden_noip", "forbidden", "other", "None"}

Statuses == [kind : {"bool"}, value : {"True", "False"}]
              \cup [kind : {"error"}, payload : Payloads]

NoStatus == [kind |-> "none"]

\* "don't have access to this API" in payload
AccessForbidden(payload) ==
    payload \in {"forbidden_ip", "forbidden_noip", "forbidden"}

\* The clean_msg of the access notification: the address when
\* payload.split("your ip(")[1].split(")")[0] succeeds, else the generic text.
clean_msg(payload) ==
    IF payload = "forbidden_ip"
    THEN "Your IP (a.b.c.d) is not whitelisted in Tuya Cloud."
    ELSE "Your IP address is not whitelisted in Tuya Cloud."

\* Mutant of Classify: the error branch leaves the observation truthy
\* ("is_online = False" is missing, the error dict itself is the observation).
ClassifyErrorTruthy(st, flag, ntf_o) ==
    IF st.kind = "error"
    THEN IF st.payload = "None"
         THEN [exc |-> TRUE, is_online |-> "False", flag |-> flag, notes |-> <<>>]
         ELSE IF AccessForbidden(st.payload) /\ ~flag
         THEN [exc |-> FALSE, is_online |-> "True", flag |-> TRUE,
               notes |-> <<Notification("Tuya API Access Error",
                                        clean_msg(st.payload), "critical", ntf_o)>>]
         ELSE [exc |-> FALSE, is_online |-> "True", flag |-> flag, notes |-> <<>>]
    ELSE [exc |-> FALSE, is_online |-> st.value, flag |-> FALSE, notes |-> <<>>]

\* Mutant of Classify: a boolean response does not clear the flag.
ClassifyKeepsFlag(st, flag, ntf_o) ==
    IF st.kind = "error"
    THEN IF st.payload = "None"
         THEN [exc |-> TRUE, is_online |-> "False", flag |-> flag, notes |-> <<>>]
         ELSE IF AccessForbidden(st.payload) /\ ~flag
         THEN [exc |-> FALSE, is_online |-> "False", flag |-> TRUE,
               notes |-> <<Notification("Tuya API Access Error",
                                        clean_msg(st.payload), "critical", ntf_o)>>]
         ELSE [exc |-> FALSE, is_online |-> "False", flag |-> flag, notes |-> <<>>]
    ELSE [exc |-> FALSE, is_online |-> st.value, flag |-> flag, notes |-> <<>>]

\* "Handle error response from tinytuya": the classification of one response.
\* '"..." in payload' raises TypeError when the payload is None.
Classify(st, flag, ntf_o) ==
    IF st.kind = "error"
    THEN IF st.payload = "None"
         THEN [exc |-> TRUE, is_online |-> "False", flag |-> flag, notes |-> <<>>]
         ELSE IF AccessForbidden(st.payload) /\ ~flag
         THEN [exc |-> FALSE, is_online |-> "False", flag |-> TRUE,
               notes |-> <<Notification("Tuya API Access Error",
                                        clean_msg(st.payload), "critical", ntf_o)>>]
         ELSE [exc |-> FALSE, is_online |-> "False", flag |-> flag, notes |-> <<>>]
    ELSE [exc |-> FALSE, is_online |-> st.value, flag |-> FALSE, notes |-> <<>>]

\* ---- get_socket_details ----
\* A code is the sequence of its characters.
c_switch == <<"s", "w", "i", "t", "c", "h">>

c_switch_ == c_switch \o <<"_">>

\* The codes a status item can carry: switch_1, switch_2, switch,
\* switch_led, countdown_1, relay_switch, and '' for an item without a code.
StatusCodes ==
    {c_switch_ \o <<"1">>, c_switch_ \o <<"2">>, c_switch,
     c_switch_ \o <<"l", "e", "d">>,
     <<"c", "o", "u", "n", "t", "d", "o", "w", "n", "_", "1">>,
     <<"r", "e", "l", "a", "y", "_">> \o c_switch,
     <<>>}

\* item.get('value'): a boolean, or None when the item has no value.
StatusItems == [code : StatusCodes, value : {"True", "False", "None"}]

\* Longest status list the backend answers with.
MaxItems == 3

RECURSIVE StatusLists(_)
StatusLists(n) ==
    IF n = 0 THEN {<<>>}
    ELSE LET shorter == StatusLists(n - 1) IN
         shorter \cup {Append(l, i) : l \in {x \in shorter : Len(x) = n - 1},
                                      i \in StatusItems}

\* c.getstatus(device_id): a dict with a 'result' list, a dict without one
\* (an error), or an exception.
StatusResponses ==
    [kind : {"result"}, result : StatusLists(MaxItems)]
      \cup {[kind |-> "no_result"], [kind |-> "raises"]}

\* str.startswith
startswith(s, prefix) ==
    Len(s) >= Len(prefix) /\ SubSeq(s, 1, Len(prefix)) = prefix

\* str.replace: every non-overlapping occurrence, from the left.
RECURSIVE replace(_, _, _)
replace(s, old, new) ==
    IF Len(s) < Len(old) THEN s
    ELSE IF SubSeq(s, 1, Len(old)) = old
    THEN new \o replace(SubSeq(s, Len(old) + 1, Len(s)), old, new)
    ELSE <<Head(s)>> \o replace(Tail(s), old, new)

\* The text made of a sequence of characters.
RECURSIVE Text(_)
Text(s) == IF s = <<>> THEN "" ELSE Head(s) \o Text(Tail(s))

\* Mutant of label: the two replacements in the other order.
label_bare_first(code) ==
    replace(replace(code, c_switch, <<"S">>), c_switch_, <<"S">>)

\* label = code.replace('switch_', 'S').replace('switch', 'S')
label(code) == replace(replace(code, c_switch_, <<"S">>), c_switch, <<"S">>)

\* The details list get_socket_details builds from status['result'].
RECURSIVE details_of(_)
details_of(result) ==
    IF result = <<>> THEN <<>>
    ELSE LET item == Head(result) IN
         (IF startswith(item.code, c_switch)
          THEN <<Text(label(item.code)) \o ": "
                   \o (IF Truthy(item.value) THEN "ON" ELSE "OFF")>>
          ELSE <<>>)
         \o details_of(Tail(result))

\* ", ".join(details)
RECURSIVE join(_)
join(details) ==
    IF details = <<>> THEN ""
    ELSE IF Len(details) = 1 THEN details[1]
    ELSE details[1] \o ", " \o join(Tail(details))

get_socket_details(st) ==
    IF st.kind = "result" THEN join(details_of(st.result))
    ELSE "Details unavailable"

NoCall == [kind |-> "none"]

InitSummary ==
    /\ sdpc = "call"
    /\ sd_status = NoCall
    /\ sd_details = ""

\* One call of get_socket_details.
GetSocketDetails ==
    /\ sdpc = "call"
    /\ \E st \in StatusResponses :
          /\ sd_status' = st
          /\ sd_details' = get_socket_details(st)
    /\ sdpc' = "return"
    /\ UNCHANGED <<bvars, mvars, avars>>

\* The caller goes on; the next call starts afresh.
SummaryReturned ==
    /\ sdpc = "return"
    /\ sdpc' = "call"
    /\ sd_status' = NoCall
    /\ sd_details' = ""
    /\ UNCHANGED <<bvars, mvars, avars>>

NextSummary == GetSocketDetails \/ SummaryReturned

\* The summary get_socket_details returns, or its fallback text.
SocketDetails == {"S1: ON, S2: OFF", "Details unavailable"}

\* Mutant of Transition: level-triggered, an offline observation always notifies.
TransitionLevelTriggered(last, online, details, ntf_o) ==
    IF online = "True" /\ last # "True"
    THEN [last_is_online |-> online,
          notes |-> <<Notification(DEVICE_NAME \o " is Online",
                                   "Reconnected. Status: " \o details,
                                   "normal", ntf_o)>>]
    ELSE IF online = "False"
    THEN [last_is_online |-> online,
          notes |-> <<Notification(DEVICE_NAME \o " is Offline",
                                   "The device is not connected to WiFi or is unavailable.",
                                   "critical", ntf_o)>>]
    ELSE [last_is_online |-> online, notes |-> <<>>]

\* Mutant of Transition: the first run does not store what it observed.
TransitionFirstRunNotStored(last, online, details, ntf_o) ==
    IF last = "None"
    THEN [last_is_online |-> last,
          notes |-> IF online = "True"
                    THEN <<Notification(DEVICE_NAME \o " is Online",
                                        "Initial Status: " \o details,
                                        "normal", ntf_o)>>
                    ELSE <<>>]
    ELSE IF online # last
    THEN [last_is_online |-> online,
          notes |-> IF online = "True"
                    THEN <<Notification(DEVICE_NAME \o " is Online",
                                        "Reconnected. Status: " \o details,
                                        "normal", ntf_o)>>
                    ELSE <<Notification(DEVICE_NAME \o " is Offline",
                                        "The device is not connected to WiFi or is unavailable.",
                                        "critical", ntf_o)>>]
    ELSE [last_is_online |-> last, notes |-> <<>>]

\* Mutant of Transition: a detected change is notified but not stored.
TransitionNotStored(last, online, details, ntf_o) ==
    IF last = "None"
    THEN [last_is_online |-> online,
          notes |-> IF online = "True"
                    THEN <<Notification(DEVICE_NAME \o " is Online",
                                        "Initial Status: " \o details,
                                        "normal", ntf_o)>>
                    ELSE <<>>]
    ELSE IF online # last
    THEN [last_is_online |-> last,
          notes |-> IF online = "True"
                    THEN <<Notification(DEVICE_NAME \o " is Online",
                                        "Reconnected. Status: " \o details,
                                        "normal", ntf_o)>>
                    ELSE <<Notification(DEVICE_NAME \o " is Offline",
                                        "The device is not connected to WiFi or is unavailable.",
                                        "critical", ntf_o)>>]
    ELSE [last_is_online |-> last, notes |-> <<>>]

\* get_socket_details is called in the two branches that announce "online".
FetchesDetails(last, online) == online = "True" /\ last # "True"

\* The edge-triggered transition logic on the held state.
Transition(last, online, details, ntf_o) ==
    IF last = "None"
    THEN [last_is_online |-> online,
          notes |-> IF online = "True"
                    THEN <<Notification(DEVICE_NAME \o " is Online",
                                        "Initial Status: " \o details,
                                        "normal", ntf_o)>>
                    ELSE <<>>]
    ELSE IF online # last
    THEN [last_is_online |-> online,
          notes |-> IF online = "True"
                    THEN <<Notification(DEVICE_NAME \o " is Online",
                                        "Reconnected. Status: " \o details,
                                        "normal", ntf_o)>>
                    ELSE <<Notification(DEVICE_NAME \o " is Offline",
                                        "The device is not connected to WiFi or is unavailable.",
                                        "critical", ntf_o)>>]
    ELSE [last_is_online |-> last, notes |-> <<>>]

\* Mutant of OnException: an error is read as an offline observation.
OnExceptionOffline(last) == "False"

\* main()'s except clause: the error is printed, last_is_online is kept.
OnException(last) == last

\* Mutant of TickTelemetry: one {is_online} record per classified tick.
TickTelemetryEmits(online) ==
    <<[measurement |-> "device_status", fields |-> [is_online |-> online],
       tags |-> [device |-> DEVICE_NAME]]>>

\* The telemetry a tick writes between classification and transition logic:
\* the loop calls no metrics sink.
TickTelemetry(online) == <<>>

NoMPrev == [kind |-> "none", api_noted |-> FALSE, flag_before |-> FALSE]

InitMonitor ==
    /\ mpc = "init"
    /\ last_is_online = "None"
    /\ last_api_error_notified = FALSE
    /\ status = NoStatus
    /\ is_online = "False"
    /\ m_held_before = "None"
    /\ m_flag_before = FALSE
    /\ m_notes = <<>>
    /\ m_details = ""
    /\ m_telem = <<>>
    /\ m_exc = FALSE
    /\ m_prev = NoMPrev
    /\ hist = <<>>

\* "Initialize Cloud connection": main() returns when the constructor raises.
InitCloud ==
    /\ mpc = "init"
    /\ \E cloud_o \in {"ok", "raises"} :
          mpc' = IF cloud_o = "ok" THEN "check" ELSE "exit"
    /\ UNCHANGED <<last_is_online, last_api_error_notified, status, is_online,
                   m_held_before, m_flag_before, m_notes, m_telem, m_exc,
                   m_prev, hist, m_details>>
    /\ UNCHANGED <<bvars, avars, svars>>

\* A new tick: is_online = c.getconnectstatus(DEVICE_ID), which may raise.
GetConnectStatus ==
    /\ mpc = "check"
    /\ m_held_before' = last_is_online
    /\ m_flag_before' = last_api_error_notified
    /\ m_notes' = <<>>
    /\ m_details' = ""
    /\ m_telem' = <<>>
    /\ is_online' = "False"
    /\ \/ \E st \in Statuses :
             /\ status' = st
             /\ m_exc' = FALSE
             /\ mpc' = "classify"
             /\ UNCHANGED last_is_online
       \/ /\ status' = [kind |-> "raises"]
          /\ m_exc' = TRUE
          /\ last_is_online' = OnException(last_is_online)
          /\ mpc' = "sleep"
    /\ UNCHANGED <<last_api_error_notified, m_prev, hist>>
    /\ UNCHANGED <<bvars, avars, svars>>

\* The error-response handling and the telemetry of the tick.
ClassifyStatus ==
    /\ mpc = "classify"
    /\ \E ntf_o \in {"sent", "failed"} :
          LET r == Classify(status, last_api_error_notified, ntf_o) IN
          /\ m_exc' = r.exc
          /\ is_online' = r.is_online
          /\ last_api_error_notified' = r.flag
          /\ m_notes' = r.notes
          /\ m_telem' = IF r.exc THEN <<>> ELSE TickTelemetry(r.is_online)
          /\ last_is_online' = IF r.exc THEN OnException(last_is_online)
                                        ELSE last_is_online
          /\ mpc' = IF r.exc THEN "sleep" ELSE "transition"
    /\ UNCHANGED <<status, m_held_before, m_flag_before, m_prev, hist, m_details>>
    /\ UNCHANGED <<bvars, avars, svars>>

\* The transition logic, with get_socket_details and send_notification.
DetectTransition ==
    /\ mpc = "transition"
    /\ \E details \in SocketDetails, ntf_o \in {"sent", "failed"} :
          LET r == Transition(last_is_online, is_online, details, ntf_o) IN
          /\ last_is_online' = r.last_is_online
          /\ m_notes' = m_notes \o r.notes
          /\ m_details' = IF FetchesDetails(last_is_online, is_online)
                          THEN details ELSE ""
    /\ mpc' = "sleep"
    /\ UNCHANGED <<last_api_error_notified, status, is_online, m_held_before,
                   m_flag_before, m_telem, m_exc, m_prev, hist>>
    /\ UNCHANGED <<bvars, avars, svars>>

\* A notification of this tick about the device going online or offline.
IsTransitionNote(n) ==
    n.title \in {DEVICE_NAME \o " is Online", DEVICE_NAME \o " is Offline"}

IsAccessNote(n) == n.title = "Tuya API Access Error"

TransitionNoted == \E i \in 1..Len(m_notes) : IsTransitionNote(m_notes[i])

AccessNoted == \E i \in 1..Len(m_notes) : IsAccessNote(m_notes[i])

\* What the tick observed: ONLINE, OFFLINE, or nothing (it raised).
Observed ==
    IF m_exc THEN "NONE" ELSE IF is_online = "True" THEN "ONLINE" ELSE "OFFLINE"

StatusKind ==
    IF status.kind = "bool" THEN "bool"
    ELSE IF status.kind = "error" /\ AccessForbidden(status.payload) THEN "forbidden"
    ELSE IF status.kind = "error" THEN "error"
    ELSE "raises"

\* time.sleep(CHECK_INTERVAL), then the next iteration.
MonitorSleep ==
    /\ mpc = "sleep"
    /\ mpc' = "check"
    /\ m_prev' = [kind |-> StatusKind, api_noted |-> AccessNoted,
                  flag_before |-> m_flag_before]
    /\ hist' = IF Len(hist) < MaxHist
               THEN Append(hist, [obs |-> Observed, noted |-> TransitionNoted])
               ELSE hist
    /\ UNCHANGED <<last_is_online, last_api_error_notified, status, is_online,
                   m_held_before, m_flag_before, m_notes, m_telem, m_exc,
                   m_details>>
    /\ UNCHANGED <<bvars, avars, svars>>

NextMonitor ==
    InitCloud \/ GetConnectStatus \/ ClassifyStatus \/ DetectTransition
        \/ MonitorSleep

\* ------------------------------------------------------------------------
\* app.py: the control endpoints
\* ------------------------------------------------------------------------

\* The <index> values of /switch/<index>/on|off: numeric ones and a name.
Indexes == {"1", "2", "usb1"}

\* index.isdigit()
IsDigit(index) == index \in {"1", "2"}

\* The control routes with their arguments.
Requests ==
    [route : {"/on", "/off"}, index : {""}]
      \cup [route : {"/switch/on", "/switch/off"}, index : Indexes]

\* The code and value a route passes to control_switch.
RouteCode(req) ==
    IF req.route \in {"/on", "/off"} THEN "switch_1"
    ELSE IF IsDigit(req.index) THEN "switch_" \o req.index ELSE req.index

RouteValue(req) == req.route \in {"/on", "/switch/on"}

Codes == {"switch_1", "switch_2", "usb1"}

NoRequest == [route |-> "", index |-> ""]

NoResponse == [http |-> 0, body |-> [kind |-> "none"]]

\* get_device() of app.py raises ValueError when the configuration of the
\* selected mode is incomplete; the constructor itself may raise as well.
AppDeviceRaises(dev_o) ==
    \/ dev_o = "raises"
    \/ USE_LOCAL /\ ~local_cfg
    \/ ~USE_LOCAL /\ ~cloud_cfg

\* Mutant of control_switch: the cloud branch falls through to the common
\* success answer instead of returning the backend's response.
control_switch_common_answer(code, value, dev_o, call_o) ==
    IF AppDeviceRaises(dev_o)
    THEN [http |-> 500, body |-> [kind |-> "error"], calls |-> <<>>,
          done |-> FALSE]
    ELSE IF USE_LOCAL /\ code # "switch_1"
    THEN [http |-> 501, body |-> [kind |-> "error"], calls |-> <<>>,
          done |-> FALSE]
    ELSE IF call_o = "raises"
    THEN [http |-> 500, body |-> [kind |-> "error"],
          calls |-> <<[code |-> code, value |-> value]>>, done |-> FALSE]
    ELSE [http |-> 200, body |-> [kind |-> "message_success"],
          calls |-> <<[code |-> code, value |-> value]>>,
          done |-> (call_o = "ok")]

\* control_switch(code, value).  call_o: the backend call returns normally
\* ("ok"), returns an error result, or raises.  done: the device switched.
control_switch(code, value, dev_o, call_o) ==
    IF AppDeviceRaises(dev_o)
    THEN [http |-> 500, body |-> [kind |-> "error"], calls |-> <<>>,
          done |-> FALSE]
    ELSE IF USE_LOCAL /\ code # "switch_1"
    THEN [http |-> 501, body |-> [kind |-> "error"], calls |-> <<>>,
          done |-> FALSE]
    ELSE IF call_o = "raises"
    THEN [http |-> 500, body |-> [kind |-> "error"],
          calls |-> <<[code |-> code, value |-> value]>>, done |-> FALSE]
    ELSE IF USE_LOCAL
    THEN [http |-> 200, body |-> [kind |-> "message_success"],
          calls |-> <<[code |-> code, value |-> value]>>,
          done |-> (call_o = "ok")]
    ELSE [http |-> 200, body |-> [kind |-> "backend_response", res |-> call_o],
          calls |-> <<[code |-> code, value |-> value]>>,
          done |-> (call_o = "ok")]

InitApp ==
    /\ apc = "init"
    /\ USE_LOCAL = FALSE
    /\ local_cfg = FALSE
    /\ cloud_cfg = FALSE
    /\ request = NoRequest
    /\ response = NoResponse
    /\ a_calls = <<>>
    /\ switches = [c \in Codes |-> FALSE]

\* Module load: the configuration is read from the environment.
LoadConfig ==
    /\ apc = "init"
    /\ apc' = "serving"
    /\ USE_LOCAL' \in BOOLEAN
    /\ local_cfg' \in BOOLEAN
    /\ cloud_cfg' \in BOOLEAN
    /\ UNCHANGED <<request, response, a_calls, switches>>
    /\ UNCHANGED <<bvars, mvars, svars>>

\* One request to /on, /off or /switch/<index>/on|off, handled to its answer.
HandleControl ==
    /\ apc = "serving"
    /\ \E req \in Requests, dev_o \in {"ok", "raises"},
          call_o \in {"ok", "error_result", "raises"} :
          LET r == control_switch(RouteCode(req), RouteValue(req), dev_o, call_o) IN
          /\ request' = req
          /\ response' = [http |-> r.http, body |-> r.body]
          /\ a_calls' = [i \in 1..Len(r.calls) |->
                            [code |-> r.calls[i].code, value |-> r.calls[i].value,
                             outcome |-> call_o]]
          /\ switches' = IF r.done
                         THEN [switches EXCEPT ![RouteCode(req)] = RouteValue(req)]
                         ELSE switches
    /\ UNCHANGED <<apc, USE_LOCAL, local_cfg, cloud_cfg>>
    /\ UNCHANGED <<bvars, mvars, svars>>

NextApp == LoadConfig \/ HandleControl

vars == <<bvars, mvars, avars, svars>>

Init == InitCharge /\ InitMonitor /\ InitApp /\ InitSummary

\* The two loops are separate processes without shared state.
SpecCharge == Init /\ [][NextCharge]_vars

\* The monitor reads none of the charge loop's configuration.
MonitorInit == Init /\ mode = "cloud" /\ ~influx_client

SpecMonitor == MonitorInit /\ [][NextMonitor]_vars

\* The web application reads none of the charge loop's configuration.
AppInit == Init /\ mode = "cloud" /\ ~influx_client

SpecApp == AppInit /\ [][NextApp]_vars

\* Calls of get_socket_details observed on their own.
SummaryInit == Init /\ mode = "cloud" /\ ~influx_client

SpecSummary == SummaryInit /\ [][NextSummary]_vars

Next == NextCharge \/ NextMonitor \/ NextApp \/ NextSummary

Spec == Init /\ [][Next]_vars

\* Either loop observed on its own, from the same initial state: the charge
\* loop runs while the monitor has not been started, the monitor runs while
\* the charge loop is in its initial state.  Each step of a loop is sequential
\* code whose calls return, so a loop that can take a step eventually takes it.
ChargeSteps == InitMonitor /\ NextCharge

ChargeIdle == InitCharge /\ mode = "cloud" /\ ~influx_client

MonitorSteps == ChargeIdle /\ NextMonitor

NextLoops == ChargeSteps \/ MonitorSteps

SpecLoops ==
    Init /\ [][NextLoops]_vars /\ WF_vars(ChargeSteps) /\ WF_vars(MonitorSteps)

\* ------------------------------------------------------------------------
\* Properties of the charge loop
\* ------------------------------------------------------------------------

\* The tick has finished: its logs are complete.
ChargeTickDone == bpc = "sleep"

\* The tick passed the network check and obtained a reading.
HasReading == ssid \in ALLOWED_SSIDS /\ battery # NoBattery

\* C1: a tick on an allow-listed network whose reading is percent < MIN and
\* not plugged, with a held action other than ON, issues exactly one ON
\* command, and the held action is ON when the command succeeded; a following
\* tick with the same reading issues no command.
C1_LowIssuesOneOn ==
    /\ (ChargeTickDone /\ HasReading
          /\ battery.percent < BATTERY_MIN /\ battery.power_plugged # "True"
          /\ held_before # "ON")
         => /\ cmds = <<"ON">>
            /\ (cmd_outcome = "ok" => last_action = "ON")
    /\ (ChargeTickDone /\ HasReading /\ battery = prev.reading
          /\ battery.percent < BATTERY_MIN /\ battery.power_plugged # "True"
          /\ prev.cmds = <<"ON">> /\ prev.outcome = "ok")
         => cmds = <<>>

C1_Witness ==
    /\ ChargeTickDone /\ HasReading /\ battery = prev.reading
    /\ battery.percent < BATTERY_MIN /\ battery.power_plugged # "True"
    /\ prev.cmds = <<"ON">> /\ prev.outcome = "ok"
    /\ cmds = <<>> /\ last_action = "ON"

\* C2: a tick on an allow-listed network whose reading is percent >= MAX and
\* plugged, with a held action other than OFF, issues exactly one OFF command,
\* and the held action is OFF when the command succeeded.
C2_FullIssuesOneOff ==
    (ChargeTickDone /\ HasReading
      /\ battery.percent >= BATTERY_MAX /\ battery.power_plugged = "True"
      /\ held_before # "OFF")
     => /\ cmds = <<"OFF">>
        /\ (cmd_outcome = "ok" => last_action = "OFF")

C2_Witness ==
    /\ ChargeTickDone /\ HasReading
    /\ battery.percent >= BATTERY_MAX /\ battery.power_plugged = "True"
    /\ held_before = "ON" /\ cmds = <<"OFF">> /\ cmd_outcome = "ok"
    /\ last_action = "OFF"

\* C3: a tick whose reading has MIN <= percent < MAX issues no command,
\* whatever the held action and the plug state.
C3_DeadZoneNoCommand ==
    (ChargeTickDone /\ battery # NoBattery
      /\ BATTERY_MIN <= battery.percent /\ battery.percent < BATTERY_MAX)
     => cmds = <<>> /\ sent = <<>>

C3_Witness ==
    /\ ChargeTickDone /\ HasReading /\ Len(steps) = 2
    /\ battery.percent = BATTERY_MIN /\ battery.power_plugged = "False"
    /\ held_before = "OFF" /\ cmds = <<>>

\* C4: the held action changes to OFF only in a tick whose reading is
\* percent >= MAX and plugged, changes to ON only in a tick whose reading is
\* percent < MIN and not plugged, and changes in no other way.
C4_TransitionsOnlyAtThresholds ==
    [][last_action' # last_action =>
          /\ HasReading
          /\ \/ /\ last_action' = "OFF"
                /\ battery.percent >= BATTERY_MAX
                /\ battery.power_plugged = "True"
             \/ /\ last_action' = "ON"
                /\ last_action \in {"OFF", "None"}
                /\ battery.percent < BATTERY_MIN
                /\ battery.power_plugged # "True"]_vars

C4_Witness ==
    /\ ChargeTickDone /\ held_before = "ON" /\ last_action = "OFF"
    /\ prev.last_action = "ON" /\ prev.reading # NoBattery

\* C5: a tick whose network identity is absent or not allow-listed writes no
\* telemetry, issues no command, sends no notification and leaves the held
\* action unchanged.
C5_UntrustedNetworkSkips ==
    (bpc # "wifi" /\ ssid \notin ALLOWED_SSIDS)
     => /\ bpc = "sleep"
        /\ telem = <<>> /\ cmds = <<>> /\ sent = <<>> /\ notes = <<>>
        /\ battery = NoBattery
        /\ last_action = held_before

C5_Witness ==
    /\ ChargeTickDone /\ ssid = "CoffeeShop" /\ held_before = "ON"
    /\ prev.reading # NoBattery /\ prev.reading.percent = 0

\* C6: whenever a relay command fails (the backend raises, also while the
\* device object is obtained, or returns an error result) a critical
\* notification is fired and the held action keeps its value.
C6_FailureNotifiesCritical ==
    (ChargeTickDone /\ cmds # <<>>
      /\ cmd_outcome \in {"get_device_raises", "raises", "error_result"})
     => /\ \E i \in 1..Len(notes) : notes[i].urgency = "critical"
        /\ last_action = held_before

\* ------------------------------------------------------------------------
\* Properties of the connectivity monitor
\* ------------------------------------------------------------------------

\* The tick has finished: its logs are complete.
MonitorTickDone == mpc = "sleep"

\* The tick saw a change: the first completed tick observing online, or a
\* later tick observing the opposite of the held state.
EdgeSeen ==
    /\ ~m_exc
    /\ \/ m_held_before = "None" /\ is_online = "True"
       \/ m_held_before # "None" /\ is_online # m_held_before

\* The ticks among the first five that fired an online/offline notification.
NotedTicks == {i \in 1..Len(hist) : i <= 5 /\ hist[i].noted}

\* The first five ticks observed ONLINE, ONLINE, OFFLINE, OFFLINE, ONLINE,
\* starting from the held state UNKNOWN.
ExampleSequence ==
    /\ Len(hist) >= 5
    /\ [i \in 1..5 |-> hist[i].obs]
         = <<"ONLINE", "ONLINE", "OFFLINE", "OFFLINE", "ONLINE">>

\* C7 as stated: an online/offline notification is fired in a tick exactly
\* when the tick saw a change, and the sequence UNKNOWN, ONLINE, ONLINE,
\* OFFLINE, OFFLINE, ONLINE notifies exactly at ticks 1, 4 and 6, whether the
\* ticks are numbered from the first observation or along the six states.
C7_NotifiesAtTicks146 ==
    /\ MonitorTickDone => (TransitionNoted <=> EdgeSeen)
    /\ ExampleSequence =>
          \/ NotedTicks = {1, 4, 6}
          \/ {i + 1 : i \in NotedTicks} = {1, 4, 6}

\* C7 (amended): an online/offline notification is fired in a tick exactly
\* when the tick completes and either it is the first completed tick and the
\* device is observed online, or a tick completed before and the observed
\* state differs from the held one; from UNKNOWN, the observations ONLINE,
\* ONLINE, OFFLINE, OFFLINE, ONLINE notify exactly at ticks 1, 3 and 5.
C7_EdgeTriggered ==
    /\ MonitorTickDone => (TransitionNoted <=> EdgeSeen)
    /\ ExampleSequence => NotedTicks = {1, 3, 5}

C7_Witness == ExampleSequence /\ NotedTicks = {1, 3, 5}

\* C8: an access-forbidden error on two consecutive ticks produces exactly
\* one "not whitelisted" notification (the flag suppresses the second), a
\* boolean response clears the flag, and the next access-forbidden error
\* notifies again.
C8_AccessErrorNotifiedOnce ==
    /\ (MonitorTickDone /\ StatusKind = "forbidden")
         => /\ AccessNoted <=> ~m_flag_before
            /\ last_api_error_notified
    /\ (MonitorTickDone /\ StatusKind = "forbidden"
          /\ m_prev.kind = "forbidden" /\ ~m_prev.flag_before)
         => m_prev.api_noted /\ ~AccessNoted
    /\ (MonitorTickDone /\ StatusKind = "bool") => ~last_api_error_notified
    /\ (MonitorTickDone /\ StatusKind = "forbidden" /\ m_prev.kind = "bool")
         => AccessNoted

C8_Witness ==
    /\ MonitorTickDone /\ StatusKind = "forbidden" /\ AccessNoted
    /\ m_prev.kind = "bool" /\ m_prev.flag_before

\* C9: a tick in which a step raises leaves the held state as it was before
\* the tick and fires no online/offline notification.
C9_ExceptionKeepsState ==
    (MonitorTickDone /\ m_exc)
     => last_is_online = m_held_before /\ ~TransitionNoted

C9_Witness ==
    /\ MonitorTickDone /\ m_exc /\ m_held_before = "True"
    /\ status.kind = "error" /\ last_is_online = "True"

C12_ScenarioCommands ==
    (scenario.on /\ Len(scenario.cmds) = Len(ScenarioReadings))
     => /\ BATTERY_MAX = 100 /\ BATTERY_MIN = 20
        /\ scenario.cmds = << <<"ON">>, <<>>, <<>>, <<"OFF">> >>
        /\ scenario.held = "OFF"

C12_Witness ==
    /\ scenario.on /\ Len(scenario.cmds) = 4 /\ scenario.held = "OFF"
    /\ prev.reading = ScenarioReadings[4] /\ prev.cmds = <<"OFF">>

\* C14: a tick that reads percent >= MAX and plugged while OFF is already
\* held issues no command and sends no notification.
C14_NoRepeatedOff ==
    (ChargeTickDone /\ HasReading
      /\ battery.percent >= BATTERY_MAX /\ battery.power_plugged = "True"
      /\ held_before = "OFF")
     => cmds = <<>> /\ sent = <<>> /\ notes = <<>>

\* A command attempt that failed: the backend raised (also while the device
\* object was obtained) or returned an error result.
FailedOutcomes == {"get_device_raises", "raises", "error_result"}

\* C15: a tick makes at most one command attempt, and after a failed ON (or
\* OFF) attempt the next tick whose reading still qualifies attempts the same
\* command again.
C15_RetryByRecurrence ==
    /\ Len(cmds) <= 1
    /\ (ChargeTickDone /\ HasReading
          /\ prev.cmds = <<"ON">> /\ prev.outcome \in FailedOutcomes
          /\ battery.percent < BATTERY_MIN /\ battery.power_plugged # "True")
         => cmds = <<"ON">>
    /\ (ChargeTickDone /\ HasReading
          /\ prev.cmds = <<"OFF">> /\ prev.outcome \in FailedOutcomes
          /\ battery.percent >= BATTERY_MAX /\ battery.power_plugged = "True")
         => cmds = <<"OFF">>

\* C18: each successful relay command fires exactly one normal-urgency
\* notification that states the reason of that command: a successful OFF
\* says the battery reached its limit, a successful ON says it is low.
C18_NotificationStatesReason ==
    (ChargeTickDone /\ cmds # <<>> /\ cmd_outcome = "ok")
     => /\ Len(notes) = 1
        /\ notes[1].urgency = "normal"
        /\ notes[1].title = "Battery Manager: Charging " \o cmds[1]
        /\ cmds[1] = "OFF" => notes[1].message = "because battery reached limit"
        /\ cmds[1] = "ON" => notes[1].message = "because battery is low"

\* C19: a tick that passes the network check and obtains a reading calls
\* the telemetry write exactly once, with this tick's reading, before the
\* policy; however the write ends, the policy is evaluated in the same tick
\* and the command it qualifies for is issued.
C19_TelemetryOnceThenPolicy ==
    /\ (bpc = "logic" /\ HasReading)
         => /\ Len(telem_tries) = 1 /\ steps = <<"telemetry">>
    /\ (ChargeTickDone /\ HasReading)
         => /\ Len(telem_tries) = 1
            /\ telem_tries[1].measurement = "battery_status"
            /\ telem_tries[1].fields.percent = battery.percent
            /\ telem_tries[1].fields.plugged = (battery.power_plugged = "True")
            /\ telem_tries[1].tags.ssid = ssid
            /\ steps = <<"telemetry", "logic">>
            /\ (battery.percent >= BATTERY_MAX /\ battery.power_plugged = "True")
                 => cmds = <<"OFF">>
            /\ (/\ battery.percent < BATTERY_MIN
                /\ battery.power_plugged # "True"
                /\ held_before # "ON")
                 => cmds = <<"ON">>

C19_Witness ==
    /\ ChargeTickDone /\ HasReading
    /\ Len(telem_tries) = 1 /\ telem_tries[1].outcome = "failed"
    /\ telem = <<>> /\ steps = <<"telemetry", "logic">>
    /\ cmds = <<"ON">> /\ Len(sent) = 1 /\ sent[1].action = "ON"

\* C20: on an allow-listed network a tick whose sensor returns no data is
\* skipped: after the read the loop is at its sleep with no telemetry written,
\* no command issued, no notification sent and the held action unchanged.
C20_NoDataSkipsTick ==
    (/\ ssid \in ALLOWED_SSIDS
     /\ battery = NoBattery
     /\ bpc \notin {"wifi", "battery"})
     => /\ bpc = "sleep"
        /\ telem = <<>> /\ telem_tries = <<>> /\ steps = <<>>
        /\ cmds = <<>> /\ sent = <<>>
        /\ notes = <<>>
        /\ last_action = held_before

C20_Witness ==
    /\ bpc = "sleep" /\ ssid \in ALLOWED_SSIDS /\ battery = NoBattery /\ ~bexc
    /\ held_before = "ON" /\ last_action = "ON"

\* ------------------------------------------------------------------------
\* Further properties of the connectivity monitor
\* ------------------------------------------------------------------------

\* The online/offline notifications of this tick.
TransitionNotes == SelectSeq(m_notes, IsTransitionNote)

\* C16: an access-forbidden error is an offline observation for the
\* transition logic: with ONLINE held the tick fires the critical offline
\* notification and OFFLINE is held afterwards; with OFFLINE held no
\* transition notification fires; on the first tick OFFLINE is held
\* afterwards and no online notification fires.
C16_AccessErrorIsOffline ==
    (MonitorTickDone /\ StatusKind = "forbidden")
     => /\ ~m_exc
        /\ is_online = "False"
        /\ last_is_online = "False"
        /\ m_held_before = "True"
             => /\ Len(TransitionNotes) = 1
                /\ TransitionNotes[1].title = DEVICE_NAME \o " is Offline"
                /\ TransitionNotes[1].urgency = "critical"
        /\ m_held_before \in {"False", "None"} => TransitionNotes = <<>>

C16_Witness ==
    /\ MonitorTickDone /\ StatusKind = "forbidden" /\ m_held_before = "True"
    /\ last_is_online = "False" /\ Len(TransitionNotes) = 1 /\ AccessNoted

\* C17: the notification of a transition matches its direction: first tick
\* online, normal "Initial Status"; offline to online, normal "Reconnected"
\* with the switch summary fetched in this tick; online to offline, critical;
\* first tick offline, none; and the held state becomes the observed one.
C17_NotificationMatchesDirection ==
    (MonitorTickDone /\ ~m_exc)
     => /\ last_is_online = is_online
        /\ (m_held_before = "None" /\ is_online = "True")
             => /\ Len(TransitionNotes) = 1
                /\ TransitionNotes[1].title = DEVICE_NAME \o " is Online"
                /\ TransitionNotes[1].urgency = "normal"
                /\ m_details \in SocketDetails
                /\ TransitionNotes[1].message = "Initial Status: " \o m_details
        /\ (m_held_before = "False" /\ is_online = "True")
             => /\ Len(TransitionNotes) = 1
                /\ TransitionNotes[1].title = DEVICE_NAME \o " is Online"
                /\ TransitionNotes[1].urgency = "normal"
                /\ m_details \in SocketDetails
                /\ TransitionNotes[1].message
                      = "Reconnected. Status: " \o m_details
        /\ (m_held_before = "True" /\ is_online = "False")
             => /\ Len(TransitionNotes) = 1
                /\ TransitionNotes[1].title = DEVICE_NAME \o " is Offline"
                /\ TransitionNotes[1].urgency = "critical"
        /\ (m_held_before = "None" /\ is_online = "False")
             => TransitionNotes = <<>>

C17_Witness ==
    /\ MonitorTickDone /\ ~m_exc /\ m_held_before = "False"
    /\ is_online = "True" /\ last_is_online = "True"
    /\ m_details = "S1: ON, S2: OFF"
    /\ Len(TransitionNotes) = 1
    /\ TransitionNotes[1].message = "Reconnected. Status: S1: ON, S2: OFF"

\* ------------------------------------------------------------------------
\* Properties of the switch summary
\* ------------------------------------------------------------------------

\* The digits a switch number is written with.
IsSwitchN(code) ==
    /\ startswith(code, c_switch_)
    /\ Len(code) > Len(c_switch_)
    /\ \A i \in (Len(c_switch_) + 1)..Len(code) : code[i] \in {"1", "2"}

\* The entry the summary is to hold for an item whose code starts with
\* "switch": SN for switch_N, S for the bare switch.
EntryFor(item) ==
    (IF item.code = c_switch THEN "S"
     ELSE IF IsSwitchN(item.code)
     THEN "S" \o Text(SubSeq(item.code, Len(c_switch_) + 1, Len(item.code)))
     ELSE Text(label(item.code)))
    \o ": " \o (IF item.value = "True" THEN "ON" ELSE "OFF")

\* The items of a status list whose code starts with "switch", in order.
SwitchItems(result) ==
    SelectSeq(result, LAMBDA item : startswith(item.code, c_switch))

\* The entries joined with ", ", written from the first to the last.
RECURSIVE SummaryOf(_)
SummaryOf(items) ==
    IF items = <<>> THEN ""
    ELSE LET n == Len(items) IN
         IF n = 1 THEN EntryFor(items[1])
         ELSE SummaryOf(SubSeq(items, 1, n - 1)) \o ", " \o EntryFor(items[n])

\* C21: for any status list the backend returns, the summary holds one
\* entry per item whose code starts with "switch" and none for other codes,
\* in backend order, each entry the label (SN for switch_N, S for switch)
\* with ON for a true value and OFF for a false one, joined by commas.
C21_SummaryFormat ==
    (sdpc = "return" /\ sd_status.kind = "result")
     => sd_details = SummaryOf(SwitchItems(sd_status.result))

C21_Witness ==
    /\ sdpc = "return"
    /\ sd_status = [kind |-> "result",
                    result |-> <<[code |-> c_switch_ \o <<"2">>, value |-> "False"],
                                 [code |-> <<"r", "e", "l", "a", "y", "_">> \o c_switch,
                                  value |-> "True"],
                                 [code |-> c_switch, value |-> "True"]>>]
    /\ sd_details = "S2: OFF, S: ON"

\* C22: a tick whose connectivity check returns an error result that does
\* not match the access-forbidden pattern is an offline observation for the
\* transition logic, fires no access notification and leaves
\* last_api_error_notified as it was, so a flag set earlier still suppresses
\* the notification of the next access-forbidden response.
C22_OtherErrorIsOffline ==
    /\ (MonitorTickDone /\ StatusKind = "error")
         => /\ ~AccessNoted
            /\ last_api_error_notified = m_flag_before
            /\ ~m_exc
            /\ is_online = "False"
            /\ last_is_online = "False"
            /\ m_held_before = "True"
                 => /\ Len(TransitionNotes) = 1
                    /\ TransitionNotes[1].urgency = "critical"
            /\ m_held_before # "True" => TransitionNotes = <<>>
    /\ (/\ MonitorTickDone /\ StatusKind = "forbidden"
        /\ m_prev.kind = "error" /\ m_prev.flag_before)
         => ~AccessNoted

\* C23: after every tick that completes without an exception the held state
\* is the value observed in that tick, and a held state other than UNKNOWN
\* never becomes UNKNOWN again.
C23_HeldIsObserved ==
    /\ []((MonitorTickDone /\ ~m_exc)
            => last_is_online = is_online /\ last_is_online # "None")
    /\ [][last_is_online # "None" => last_is_online' # "None"]_vars

C23_Witness ==
    /\ MonitorTickDone /\ ~m_exc /\ m_held_before = "None"
    /\ m_prev.kind = "raises"
    /\ is_online = "False" /\ last_is_online = "False"

\* ------------------------------------------------------------------------
\* Properties of the control endpoints
\* ------------------------------------------------------------------------

\* The request made a backend call, and how it ended.
CallCompleted == Len(a_calls) = 1 /\ a_calls[1].outcome # "raises"

CallRaised == Len(a_calls) = 1 /\ a_calls[1].outcome = "raises"

\* C13 as stated: every control request whose backend call completes without
\* an exception is answered {message, status: "success"}, in cloud mode as in
\* local mode, and every request whose backend call raises is answered
\* {error} with HTTP 500.
C13_SuccessBodyInBothModes ==
    /\ CallCompleted => response.body.kind = "message_success"
    /\ CallRaised => response.http = 500 /\ response.body.kind = "error"

\* C13 (amended): a request whose backend call completes is answered with
\* HTTP 200, carrying {message, status: "success"} in local mode and the
\* backend's own response in cloud mode; a request whose backend call (or the
\* construction of the device object) raises is answered {error} with 500.
C13_ControlResponses ==
    /\ (CallCompleted /\ USE_LOCAL)
         => response.http = 200 /\ response.body.kind = "message_success"
    /\ (CallCompleted /\ ~USE_LOCAL)
         => /\ response.http = 200
            /\ response.body = [kind |-> "backend_response",
                                 res |-> a_calls[1].outcome]
    /\ CallRaised => response.http = 500 /\ response.body.kind = "error"
    /\ (request # NoRequest /\ a_calls = <<>>)
         => response.http \in {500, 501} /\ response.body.kind = "error"

C13_Witness ==
    /\ ~USE_LOCAL /\ CallCompleted /\ request.route = "/switch/on"
    /\ request.index = "2" /\ switches["switch_2"]
    /\ response.body.kind = "backend_response"

\* ------------------------------------------------------------------------
\* Properties of both loops
\* ------------------------------------------------------------------------

\* C11: once a loop has started nothing ends it: the charge loop has no exit,
\* the monitor leaves only from its start-up (never from inside the loop),
\* every tick that started reaches its sleep, and every sleep is followed by
\* the start of another tick.
C11_LoopNeverEnds ==
    /\ [][mpc' = "exit" => mpc = "init"]_vars
    /\ []<>(bpc = "wifi")
    /\ []<>(mpc \in {"init", "check", "exit"})

C11_Witness ==
    /\ bpc = "battery" /\ prev.outcome = "get_device_raises"
    /\ prev.reading # NoBattery

====
